---------------------------- MODULE Spec2Model ----------------------------
(*
  Model of the asynchronous task layer of jimeng-api:
    src/src/api/controllers/async-tasks.ts   the controller
    src/src/api/routes/async-tasks.ts        the /v1/async route handlers
    src/unnamed/part_000                     the URL extraction helpers

  One call is modelled from its entry (a route handler, or the exported
  controller function called directly) to its return or throw.  The
  collaborators the code awaits (upload, file read, download, the vendor
  request) are the environment: each answers nondeterministically, and every
  call made to one is appended to `calls`.

  Strings the code inspects are sequences of one-character strings; the empty
  sequence is the empty string (falsy in JavaScript).
*)
EXTENDS Integers, Sequences, FiniteSets, TLC

VARIABLES
  op,                \* the operation in progress, "idle" before a call starts
  entry,             \* "route": through the route handler; "direct": the controller called as a function
  pc,                \* position of the call
  args,              \* the arguments the controller was called with
  i,                 \* index of the upload loop (0-based, as in the code)
  uploadedImageIds,  \* createImageCompositionTask: ids pushed so far
  uploadIDs,         \* createVideoGenerationTask: ids pushed so far
  calls,             \* every collaborator call made by this call, in order
  ret                \* how the call ended: nothing yet, a returned value, or a thrown error

vars == <<op, entry, pc, args, i, uploadedImageIds, uploadIDs, calls, ret>>

-----------------------------------------------------------------------------
(* Bounds of the model *)

\* how many images beyond the routes' limits a direct caller passes
MaxOver == 1

(* Program constants *)

\* routes/async-tasks.ts:115,124  "最多支持10张输入图片"
MaxCompositionImages == 10
\* routes/async-tasks.ts:197,198,202  at most 2 file paths / uploaded files
MaxVideoImages == 2

-----------------------------------------------------------------------------
(* Values *)

NoArgs == [none |-> TRUE]

Pending == [kind |-> "none"]
Return(v) == [kind |-> "return", value |-> v]
Throw(ex, msg) == [kind |-> "throw", ex |-> ex, msg |-> msg]

\* new APIException(EX.API_IMAGE_GENERATION_FAILED, `图片上传失败: ...`)
UploadFailure == Throw("API_IMAGE_GENERATION_FAILED", "image_upload_failed")
\* new APIException(EX.API_IMAGE_GENERATION_FAILED, "记录ID不存在")
SubmissionFailure == Throw("API_IMAGE_GENERATION_FAILED", "record_id_missing")
\* new APIException(EX.API_REQUEST_FAILED, `首帧图片上传失败: ...`)
FirstFrameFailure == Throw("API_REQUEST_FAILED", "first_frame_upload_failed")
\* an error thrown by request(): surfaced as it is
TransportFailure == Throw("TransportError", "request_failed")
\* reading a property of undefined
TypeError == Throw("TypeError", "cannot_read_properties_of_undefined")

\* The asset id the vendor issues for the image with reference r.
AssetId(r) == <<"asset", r>>
\* The empty string: an upload that resolves without an id.
EmptyId == <<>>
\* JavaScript truthiness of a string
Truthy(s) == s # <<>>

\* What one awaited upload can do: resolve with an id, resolve with an empty
\* id, or reject.
UploadOutcomes == {"ok", "empty", "fail"}

IdOf(outcome, r) == IF outcome = "ok" THEN AssetId(r) ELSE EmptyId

-----------------------------------------------------------------------------
(* The vendor's answer to POST /mweb/v1/aigc_draft/generate *)

\* rejected: request() threw (a transport failure or a vendor error code);
\* otherwise the parsed answer: aigc_data present or not, history_record_id in
\* it present or not, and its value (<<>>: the empty string)
GenerateAnswers ==
  { [rejected |-> TRUE,  aigc_data |-> FALSE, has_id |-> FALSE, history_record_id |-> <<>>],
    [rejected |-> FALSE, aigc_data |-> FALSE, has_id |-> FALSE, history_record_id |-> <<>>],
    [rejected |-> FALSE, aigc_data |-> TRUE,  has_id |-> FALSE, history_record_id |-> <<>>],
    [rejected |-> FALSE, aigc_data |-> TRUE,  has_id |-> TRUE,  history_record_id |-> <<>>],
    [rejected |-> FALSE, aigc_data |-> TRUE,  has_id |-> TRUE,  history_record_id |-> <<"h", 1>>],
    [rejected |-> FALSE, aigc_data |-> TRUE,  has_id |-> TRUE,  history_record_id |-> <<"h", 2>>] }

\* const historyId = aigc_data?.history_record_id;
\* if (!historyId) throw new APIException(EX.API_IMAGE_GENERATION_FAILED, "记录ID不存在");
\* return historyId;
HistoryIdOptional(resp) ==
  IF resp.rejected THEN TransportFailure
  ELSE IF ~resp.aigc_data \/ ~resp.has_id \/ ~Truthy(resp.history_record_id)
  THEN SubmissionFailure
  ELSE Return(resp.history_record_id)

\* const historyId = aigc_data.history_record_id;   (no "?.")
\* if (!historyId) throw ...; return historyId;
HistoryIdStrict(resp) ==
  IF resp.rejected THEN TransportFailure
  ELSE IF ~resp.aigc_data THEN TypeError
  ELSE IF ~resp.has_id \/ ~Truthy(resp.history_record_id) THEN SubmissionFailure
  ELSE Return(resp.history_record_id)

-----------------------------------------------------------------------------
(* The collaborator calls of a call *)

IsUploadCall(c) == c.fn \in {"uploadImageFromUrl", "uploadImageBuffer"}
IsFetchCall(c) == c.fn \in {"readFile", "access", "axios.get"}
IsGenerateCall(c) == c.fn = "request:/mweb/v1/aigc_draft/generate"
IsHistoryCall(c) == c.fn = "request:/mweb/v1/get_history_by_ids"

UploadCalls == SelectSeq(calls, IsUploadCall)
GenerateCalls == SelectSeq(calls, IsGenerateCall)
HistoryCalls == SelectSeq(calls, IsHistoryCall)

\* the input indices of a sequence of calls
Indices(cs) == [k \in 1..Len(cs) |-> cs[k].idx]

-----------------------------------------------------------------------------
(* createImageCompositionTask *)

\* images: (string | Buffer)[].  An image list of n images by kind pattern.
ImageKind(pattern, k) ==
  IF pattern = "mixed" THEN (IF k % 2 = 1 THEN "url" ELSE "buffer") ELSE pattern

ImageList(n, pattern) ==
  [k \in 1..n |-> [kind |-> ImageKind(pattern, k), ref |-> k]]

\* the direct caller's image lists: any length (the routes' bound is not
\* assumed), URL strings and Buffers mixed
DirectImageLists ==
  { ImageList(n, "mixed") : n \in 0..(MaxCompositionImages + MaxOver) }

\* typeof image === 'string' ? uploadImageFromUrl : uploadImageBuffer
UploadFnOf(image) ==
  IF image.kind = "url" THEN "uploadImageFromUrl" ELSE "uploadImageBuffer"

\* The exported function called as such.
CompositionDirect ==
  /\ op = "idle"
  /\ \E imgs \in DirectImageLists :
       args' = [images |-> imgs]
  /\ op' = "composition"
  /\ entry' = "direct"
  /\ pc' = "comp_upload"
  /\ i' = 0
  /\ uploadedImageIds' = <<>>
  /\ UNCHANGED <<uploadIDs, calls, ret>>

\* The request of POST /v1/async/images/compositions, as far as the handler
\* reads its images: multipart (request.files.images absent, one file, or an
\* array of n files) or JSON (body.images, an array of n entries, the last of
\* which may be malformed).
CompositionRequests ==
  { [form |-> "multipart", files |-> f, n |-> n, bad |-> "none"] :
      f \in {"array"}, n \in 0..(MaxCompositionImages + MaxOver) }
  \cup { [form |-> "multipart", files |-> f, n |-> 1, bad |-> "none"] : f \in {"absent", "single"} }
  \cup { [form |-> "json", files |-> "absent", n |-> n, bad |-> b] :
      n \in 0..(MaxCompositionImages + MaxOver), b \in {"none", "format", "nourl"} }

\* faulty variant: the empty image list is let through
CompositionValidationNoLower(req) ==
  IF req.form = "multipart" /\ req.files = "absent" THEN "missing_images_field"
  ELSE IF req.n > MaxCompositionImages THEN "at_most_10_images"
  ELSE IF req.form = "json" /\ req.bad = "format" THEN "image_format"
  ELSE IF req.form = "json" /\ req.bad = "nourl" THEN "image_without_url"
  ELSE "ok"

\* routes/async-tasks.ts:105-136: the error the handler throws for the request,
\* or "ok"
CompositionValidation(req) ==
  IF req.form = "multipart"
  THEN IF req.files = "absent" THEN "missing_images_field"
       ELSE IF req.n = 0 THEN "at_least_one_image"
       ELSE IF req.n > MaxCompositionImages THEN "at_most_10_images"
       ELSE "ok"
  ELSE IF req.n = 0 THEN "at_least_one_image"
       ELSE IF req.n > MaxCompositionImages THEN "at_most_10_images"
       ELSE IF req.bad = "format" THEN "image_format"
       ELSE IF req.bad = "nourl" THEN "image_without_url"
       ELSE "ok"

\* images = imageFiles.map(file => fs.readFileSync(file.filepath))   (Buffers)
\* images = bodyImages.map(image => _.isString(image) ? image : image.url)   (strings)
RouteImages(req) ==
  ImageList(req.n, IF req.form = "multipart" THEN "buffer" ELSE "url")

\* "/images/compositions": validate, then call createImageCompositionTask
CompositionRoute ==
  /\ op = "idle"
  /\ op' = "composition"
  /\ entry' = "route"
  /\ \E req \in CompositionRequests :
       IF CompositionValidation(req) = "ok"
       THEN /\ args' = [images |-> RouteImages(req)]
            /\ pc' = "comp_upload"
            /\ ret' = ret
       ELSE /\ args' = [rejected |-> req]
            /\ pc' = "done"
            /\ ret' = Throw("Error", CompositionValidation(req))
  /\ i' = 0
  /\ uploadedImageIds' = <<>>
  /\ UNCHANGED <<uploadIDs, calls>>

\* faulty variant: a failed upload is tolerated: the loop goes on to the next image
CompositionUploadStepTolerant(outcome) ==
  LET image == args.images[i + 1] IN
  /\ calls' = Append(calls, [fn |-> UploadFnOf(image), idx |-> i, out |-> outcome,
                              id |-> IdOf(outcome, image.ref)])
  /\ uploadedImageIds' = IF outcome = "fail" THEN uploadedImageIds
                         ELSE Append(uploadedImageIds, IdOf(outcome, image.ref))
  /\ i' = i + 1
  /\ UNCHANGED <<pc, ret>>

\* for (let i = 0; i < images.length; i++) { try { ...upload...; push } catch { throw } }
\* one iteration of the loop
CompositionUploadStep(outcome) ==
  LET image == args.images[i + 1] IN
  /\ calls' = Append(calls, [fn |-> UploadFnOf(image), idx |-> i, out |-> outcome,
                              id |-> IdOf(outcome, image.ref)])
  /\ IF outcome = "fail"
     THEN /\ ret' = UploadFailure
          /\ pc' = "done"
          /\ UNCHANGED <<i, uploadedImageIds>>
     ELSE /\ uploadedImageIds' = Append(uploadedImageIds, IdOf(outcome, image.ref))
          /\ i' = i + 1
          /\ UNCHANGED <<pc, ret>>

CompositionUpload ==
  /\ op = "composition"
  /\ pc = "comp_upload"
  /\ i < Len(args.images)
  /\ \E outcome \in UploadOutcomes : CompositionUploadStep(outcome)
  /\ UNCHANGED <<op, entry, args, uploadIDs>>

\* what the generate request of a composition is built from:
\* buildBlendAbilityList(uploadedImageIds, ...), buildPromptPlaceholderList(uploadedImageIds.length),
\* imageCount = images.length
CompositionRequest(answer) ==
  [fn |-> "request:/mweb/v1/aigc_draft/generate",
   answer |-> answer,
   generateType |-> "blend",
   abilityIds |-> uploadedImageIds,
   placeholders |-> Len(uploadedImageIds),
   imageCount |-> Len(args.images)]

\* after the loop: build the request, await request(...), extract the history id
CompositionSubmit ==
  /\ op = "composition"
  /\ pc = "comp_upload"
  /\ i >= Len(args.images)
  /\ \E answer \in GenerateAnswers :
       /\ calls' = Append(calls, CompositionRequest(answer))
       /\ ret' = HistoryIdOptional(answer)
  /\ pc' = "done"
  /\ UNCHANGED <<op, entry, args, i, uploadedImageIds, uploadIDs>>

-----------------------------------------------------------------------------
(* createImageGenerationTask *)

ImageGenerationRequest(answer) ==
  [fn |-> "request:/mweb/v1/aigc_draft/generate", answer |-> answer, generateType |-> "generate"]

\* the whole function: build the request, await request(...), extract the id
ImageGeneration ==
  /\ op = "idle"
  /\ op' = "imageGen"
  /\ \E e \in {"route", "direct"} : entry' = e
  /\ args' = [prompt |-> "p"]
  /\ \E answer \in GenerateAnswers :
       /\ calls' = Append(calls, ImageGenerationRequest(answer))
       /\ ret' = HistoryIdOptional(answer)
  /\ pc' = "done"
  /\ UNCHANGED <<i, uploadedImageIds, uploadIDs>>

-----------------------------------------------------------------------------
(* createVideoGenerationTask: the model key and the duration *)

\* String.prototype.includes
Includes(s, sub) ==
  \E k \in 1..(Len(s) - Len(sub) + 1) : SubSeq(s, k, k + Len(sub) - 1) = sub

S_veo3 == <<"v", "e", "o", "3">>
S_sora2 == <<"s", "o", "r", "a", "2">>
S_35pro == <<"3", ".", "5", "_", "p", "r", "o">>
S_vgfm30 == <<"v", "g", "f", "m", "_", "3", ".", "0">>
S_vgfm30fast == <<"v", "g", "f", "m", "_", "3", ".", "0", "_", "f", "a", "s", "t">>
S_pro == <<"_", "p", "r", "o">>
S_vgfm == <<"v", "g", "f", "m", "_">>
S_sep == <<"_">>

\* Keys getVideoModel (controllers/videos.ts) may resolve to: one per family,
\* and keys in which two family markers occur together.
ModelKeys ==
  { S_veo3,
    S_veo3 \o <<".", "1">>,
    S_sora2,
    S_vgfm \o S_35pro,
    S_vgfm \o <<"3", ".", "5">>,
    S_vgfm30,
    S_vgfm30fast,
    S_vgfm30 \o S_pro,
    S_vgfm30fast \o S_pro,
    S_vgfm \o <<"2", ".", "0">>,
    S_veo3 \o S_sep \o S_sora2,
    S_sora2 \o S_sep \o S_35pro,
    S_veo3 \o S_sep \o S_35pro }

\* the durations the route accepts (routes/async-tasks.ts:190) and others a
\* direct caller may pass
RouteDurations == {4, 5, 8, 10, 12}
Durations == RouteDurations \cup {7, 0, 15}

\* faulty variant: the sora2 branch is tested before the veo3 branch
ActualDurationSwapped(model, duration) ==
  IF Includes(model, S_sora2)
  THEN (IF duration = 12 THEN 12 ELSE IF duration = 8 THEN 8 ELSE 4)
  ELSE IF Includes(model, S_veo3) THEN 8
  ELSE IF Includes(model, S_35pro)
  THEN (IF duration = 12 THEN 12 ELSE IF duration = 10 THEN 10 ELSE 5)
  ELSE (IF duration = 10 THEN 10 ELSE 5)

\* async-tasks.ts:355-383: actualDuration
ActualDuration(model, duration) ==
  IF Includes(model, S_veo3) THEN 8
  ELSE IF Includes(model, S_sora2)
  THEN (IF duration = 12 THEN 12 ELSE IF duration = 8 THEN 8 ELSE 4)
  ELSE IF Includes(model, S_35pro)
  THEN (IF duration = 12 THEN 12 ELSE IF duration = 10 THEN 10 ELSE 5)
  ELSE (IF duration = 10 THEN 10 ELSE 5)

\* async-tasks.ts:355-383: durationMs, assigned beside actualDuration in each branch
DurationMs(model, duration) ==
  IF Includes(model, S_veo3) THEN 8000
  ELSE IF Includes(model, S_sora2)
  THEN (IF duration = 12 THEN 12000 ELSE IF duration = 8 THEN 8000 ELSE 4000)
  ELSE IF Includes(model, S_35pro)
  THEN (IF duration = 12 THEN 12000 ELSE IF duration = 10 THEN 10000 ELSE 5000)
  ELSE (IF duration = 10 THEN 10000 ELSE 5000)

\* faulty variant: the "_pro" exclusion is left out
SupportsResolutionProToo(model) ==
  Includes(model, S_vgfm30) \/ Includes(model, S_vgfm30fast)

\* async-tasks.ts:350
SupportsResolution(model) ==
  (Includes(model, S_vgfm30) \/ Includes(model, S_vgfm30fast)) /\ ~Includes(model, S_pro)

-----------------------------------------------------------------------------
(* createVideoGenerationTask: the images *)

\* _.values(files): the values of the uploaded-file fields.  A field that
\* carries one file holds the file object; a field that carries several files
\* holds an array of them (routes/async-tasks.ts:111 unwraps such a value for
\* the compositions); a value may also be null or undefined.
FileEntries == {"file", "null", "array"}
\* filePaths: "" (falsy), a path that starts with "/" and exists, or a URL
PathEntries == {"empty", "local", "url"}

SeqsUpTo(S, n) == UNION { [1..m -> S] : m \in 0..n }

FileLists == SeqsUpTo(FileEntries, MaxVideoImages + MaxOver)
PathLists == SeqsUpTo(PathEntries, MaxVideoImages + MaxOver)

\* the payload arguments used when the call carries images
DefaultPayloads ==
  { [model |-> S_vgfm30, duration |-> 5, resolution |-> "720p"],
    [model |-> S_vgfm \o S_35pro, duration |-> 10, resolution |-> "1080p"] }

AllPayloads ==
  [model : ModelKeys, duration : Durations, resolution : {"720p", "1080p"}]

\* the path lists tried together with uploaded files
PathsBesideFiles == { <<>>, <<"url", "local">> }

ImageInputs ==
  { [files |-> <<>>, filePaths |-> ps] : ps \in PathLists }
  \cup { [files |-> fs, filePaths |-> ps] : fs \in FileLists, ps \in PathsBesideFiles }

\* The arguments of a direct call: every payload without images, and every
\* image input under the default payloads.
VideoArgs ==
  { [model |-> p.model, duration |-> p.duration, resolution |-> p.resolution,
     files |-> <<>>, filePaths |-> <<>>] : p \in AllPayloads }
  \cup
  { [model |-> p.model, duration |-> p.duration, resolution |-> p.resolution,
     files |-> im.files, filePaths |-> im.filePaths] : p \in DefaultPayloads, im \in ImageInputs }

VideoDirect ==
  /\ op = "idle"
  /\ \E a \in VideoArgs : args' = a
  /\ op' = "video"
  /\ entry' = "direct"
  /\ pc' = "video_upload"
  /\ i' = 0
  /\ uploadIDs' = <<>>
  /\ UNCHANGED <<uploadedImageIds, calls, ret>>

\* The request of POST /v1/async/videos/generations, as far as the handler
\* reads it: the uploaded files, body.filePaths, body.file_paths, body.duration.
UrlPaths(n) == [k \in 1..n |-> "url"]

RoutePathLists ==
  { <<>>, <<"local", "url">>, <<"empty", "url">> }
  \cup { UrlPaths(n) : n \in 1..(MaxVideoImages + MaxOver) }

\* request.files of the route: no file, files under names of their own, or
\* several files under one name
RouteFileLists ==
  { [k \in 1..n |-> "file"] : n \in 0..(MaxVideoImages + MaxOver) }
  \cup { <<"array">>, <<"file", "array">> }

VideoRequests ==
  [files : RouteFileLists,
   filePaths : RoutePathLists,
   file_paths : RoutePathLists,
   duration : {5, 7, 10}]

\* faulty variant: the count of uploaded files is not checked
VideoValidationNoFiles(req) ==
  IF req.duration \notin RouteDurations THEN "invalid_duration"
  ELSE IF Len(req.file_paths) > MaxVideoImages THEN "invalid_file_paths"
  ELSE IF Len(req.filePaths) > MaxVideoImages THEN "invalid_filePaths"
  ELSE "ok"

\* routes/async-tasks.ts:183-204: the error the handler throws, or "ok";
\* uploadedFiles = _.values(request.files) has one entry per field
VideoValidation(req) ==
  IF req.duration \notin RouteDurations THEN "invalid_duration"
  ELSE IF Len(req.file_paths) > MaxVideoImages THEN "invalid_file_paths"
  ELSE IF Len(req.filePaths) > MaxVideoImages THEN "invalid_filePaths"
  ELSE IF Len(req.files) > MaxVideoImages THEN "at_most_2_files"
  ELSE "ok"

\* routes/async-tasks.ts:223: filePaths.length > 0 ? filePaths : file_paths
FinalFilePaths(req) ==
  IF Len(req.filePaths) > 0 THEN req.filePaths ELSE req.file_paths

\* "/videos/generations": validate, then call createVideoGenerationTask
VideoRoute ==
  /\ op = "idle"
  /\ op' = "video"
  /\ entry' = "route"
  /\ \E req \in VideoRequests :
       IF VideoValidation(req) = "ok"
       THEN /\ args' = [model |-> S_vgfm30, duration |-> req.duration, resolution |-> "720p",
                        files |-> req.files,
                        filePaths |-> FinalFilePaths(req)]
            /\ pc' = "video_upload"
            /\ ret' = ret
       ELSE /\ args' = [rejected |-> req]
            /\ pc' = "done"
            /\ ret' = Throw("Error", VideoValidation(req))
  /\ i' = 0
  /\ uploadIDs' = <<>>
  /\ UNCHANGED <<uploadedImageIds, calls>>

\* faulty variant: the two branches in the other order: the file paths are
\* preferred when there are any
UsesFilesUnlessPaths == Len(args.files) > 0 /\ Len(args.filePaths) = 0

\* if (uploadedFiles && uploadedFiles.length > 0) ... else if (filePaths && filePaths.length > 0) ...
UsesFiles == Len(args.files) > 0
Source == IF UsesFiles THEN args.files ELSE args.filePaths

\* the collaborator calls of one upload, up to the one that failed (`from`: the
\* kind of the entry it serves)
\*   uploadImageFromFile: fs.readFile, uploadImageBuffer
\*   isLocalFilePath + uploadVideoImageFromLocalPath: fs.access, fs.readFile, uploadImageBuffer
\*   isLocalFilePath + uploadVideoImageFromUrl: axios.get, uploadImageBuffer
FetchFn(kind) == IF kind = "url" THEN "axios.get" ELSE "readFile"

VideoUploadOutcomes == UploadOutcomes \cup {"fetch_fail"}

\* what the upload of one entry can do; for an array value file.filepath is
\* undefined and fs.readFile rejects
OutcomesOf(kind) ==
  IF kind = "array" THEN {"fetch_fail"} ELSE VideoUploadOutcomes

VideoUploadCalls(kind, idx, outcome) ==
  (IF kind = "local"
   THEN <<[fn |-> "access", idx |-> idx, out |-> "ok", id |-> EmptyId, from |-> kind]>> ELSE <<>>)
  \o <<[fn |-> FetchFn(kind), idx |-> idx,
        out |-> IF outcome = "fetch_fail" THEN "fail" ELSE "ok", id |-> EmptyId, from |-> kind]>>
  \o (IF outcome = "fetch_fail" THEN <<>>
      ELSE <<[fn |-> "uploadImageBuffer", idx |-> idx, out |-> outcome,
              id |-> IdOf(outcome, idx + 1), from |-> kind]>>)

Rejects(outcome) == outcome \in {"fail", "fetch_fail"}

\* faulty variant: a failed upload aborts whatever its index
VideoCatchAlways(idx) == TRUE

\* async-tasks.ts:408-413, 441-446: the catch block of one iteration throws
\* if (i === 0)
VideoCatchThrows(idx) == idx = 0

\* async-tasks.ts:402-407, 435-440: if (imageUri) uploadIDs.push(imageUri)
VideoPush(ids, id) == IF Truthy(id) THEN Append(ids, id) ELSE ids

\* faulty variant: a tolerated failure is tried again: the index is not advanced
VideoUploadStepRetry(kind, outcome) ==
  /\ calls' = calls \o VideoUploadCalls(kind, i, outcome)
  /\ IF Rejects(outcome)
     THEN IF VideoCatchThrows(i)
          THEN /\ ret' = FirstFrameFailure
               /\ pc' = "done"
               /\ UNCHANGED <<i, uploadIDs>>
          ELSE UNCHANGED <<i, pc, ret, uploadIDs>>
     ELSE /\ uploadIDs' = VideoPush(uploadIDs, IdOf(outcome, i + 1))
          /\ i' = i + 1
          /\ UNCHANGED <<pc, ret>>

\* one iteration of either loop (396-414, 419-447)
VideoUploadStep(kind, outcome) ==
  /\ calls' = calls \o VideoUploadCalls(kind, i, outcome)
  /\ IF Rejects(outcome)
     THEN IF VideoCatchThrows(i)
          THEN /\ ret' = FirstFrameFailure
               /\ pc' = "done"
               /\ UNCHANGED <<i, uploadIDs>>
          ELSE /\ i' = i + 1
               /\ UNCHANGED <<pc, ret, uploadIDs>>
     ELSE /\ uploadIDs' = VideoPush(uploadIDs, IdOf(outcome, i + 1))
          /\ i' = i + 1
          /\ UNCHANGED <<pc, ret>>

\* faulty variant: the skip jumps back to the loop test without the increment
VideoSkipStuck ==
  /\ op = "video"
  /\ pc = "video_upload"
  /\ i < Len(Source)
  /\ Source[i + 1] \in {"null", "empty"}
  /\ UNCHANGED <<op, entry, pc, args, i, uploadedImageIds, uploadIDs, calls, ret>>

\* if (!file) continue;   if (!filePath) { ...; continue; }
VideoSkip ==
  /\ op = "video"
  /\ pc = "video_upload"
  /\ i < Len(Source)
  /\ Source[i + 1] \in {"null", "empty"}
  /\ i' = i + 1
  /\ UNCHANGED <<op, entry, pc, args, uploadedImageIds, uploadIDs, calls, ret>>

VideoUpload ==
  /\ op = "video"
  /\ pc = "video_upload"
  /\ i < Len(Source)
  /\ Source[i + 1] \notin {"null", "empty"}
  /\ \E outcome \in OutcomesOf(Source[i + 1]) : VideoUploadStep(Source[i + 1], outcome)
  /\ UNCHANGED <<op, entry, args, uploadedImageIds>>

NoFrame == [set |-> FALSE, uri |-> EmptyId]
Frame(id) == [set |-> TRUE, uri |-> id]

\* async-tasks.ts:453-488: if (uploadIDs.length > 0) { if (uploadIDs[0]) ...; if (uploadIDs[1]) ... }
FrameAt(ids, k) ==
  IF Len(ids) > 0 /\ k < Len(ids) /\ Truthy(ids[k + 1]) THEN Frame(ids[k + 1]) ELSE NoFrame

first_frame_image == FrameAt(uploadIDs, 0)
end_frame_image == FrameAt(uploadIDs, 1)

\* async-tasks.ts:495-507
sceneOption ==
  [has_resolution |-> SupportsResolution(args.model),
   resolution |-> args.resolution,
   modelReqKey |-> args.model,
   videoDuration |-> ActualDuration(args.model, args.duration)]

\* async-tasks.ts:539-627: the video_gen_inputs entry of the request, with the
\* scene options sent beside it
VideoRequest(answer) ==
  [fn |-> "request:/mweb/v1/aigc_draft/generate",
   answer |-> answer,
   generateType |-> "gen_video",
   sceneOption |-> sceneOption,
   duration_ms |-> DurationMs(args.model, args.duration),
   has_resolution |-> SupportsResolution(args.model),
   resolution |-> args.resolution,
   first_frame_image |-> first_frame_image,
   end_frame_image |-> end_frame_image,
   model_req_key |-> args.model]

\* after the loops: build the frames and the request, await request(...),
\* extract the history id
VideoSubmit ==
  /\ op = "video"
  /\ pc = "video_upload"
  /\ i >= Len(Source)
  /\ \E answer \in GenerateAnswers :
       /\ calls' = Append(calls, VideoRequest(answer))
       /\ ret' = HistoryIdStrict(answer)
  /\ pc' = "done"
  /\ UNCHANGED <<op, entry, args, i, uploadedImageIds, uploadIDs>>

-----------------------------------------------------------------------------
(* Image URL extraction: src/unnamed/part_000 (lib/image-utils.ts) *)

\* how many items a history record holds at most
MaxItems == 2

\* the vendor's escaped ampersand: a backslash, then u0026 (six characters)
Escaped == <<"\\", "u", "0", "0", "2", "6">>
Amp == <<"&">>

\* faulty variant: the pattern without the g flag: only the first occurrence
RECURSIVE UnescapeFirstOnly(_)
UnescapeFirstOnly(s) ==
  IF Len(s) = 0 THEN <<>>
  ELSE IF Len(s) >= Len(Escaped) /\ SubSeq(s, 1, Len(Escaped)) = Escaped
       THEN Amp \o SubSeq(s, Len(Escaped) + 1, Len(s))
       ELSE <<Head(s)>> \o UnescapeFirstOnly(Tail(s))

\* String.prototype.replace(/\\u0026/g, '&'): every occurrence, left to right
RECURSIVE Unescape(_)
Unescape(s) ==
  IF Len(s) = 0 THEN <<>>
  ELSE IF Len(s) >= Len(Escaped) /\ SubSeq(s, 1, Len(Escaped)) = Escaped
       THEN Amp \o Unescape(SubSeq(s, Len(Escaped) + 1, Len(s)))
       ELSE <<Head(s)>> \o Unescape(Tail(s))

\* image URLs the vendor sends
ImageUrls ==
  { <<"a">>,
    <<"a", "?", "x">> \o Escaped \o <<"y">>,
    <<"b", "?">> \o Escaped \o Escaped \o <<"z">> \o Escaped,
    <<"c", "&", "d">> }

\* no value: null or undefined
Null == <<"null">>

\* a response item, as far as the image extraction reads it:
\*   has_image: item.image is an object
\*   image_url: item.image.large_images[0].image_url, <<>> when any link of that chain is missing
ImageItems ==
  { [has_image |-> FALSE, image_url |-> <<>>],
    [has_image |-> TRUE, image_url |-> <<>>] }
  \cup { [has_image |-> TRUE, image_url |-> u] : u \in ImageUrls }

\* part_000:23-35
extractImageUrl(item) ==
  IF item.has_image /\ Truthy(item.image_url) THEN Unescape(item.image_url) ELSE Null

\* part_000:84-88: map, then filter(url => url !== null)
RECURSIVE extractImageUrls(_)
extractImageUrls(itemList) ==
  IF Len(itemList) = 0 THEN <<>>
  ELSE (IF extractImageUrl(Head(itemList)) # Null
        THEN <<extractImageUrl(Head(itemList))>> ELSE <<>>)
       \o extractImageUrls(Tail(itemList))

-----------------------------------------------------------------------------
(* queryImageTaskStatus *)

\* the vendor's answer to get_history_by_ids, as far as queryImageTaskStatus
\* reads it: response[historyId] (present or not), its status, fail_code and
\* item_list (absent, or a list of items)
ImageHistoryResponses ==
  [present : BOOLEAN,
   status : {10, 20, 30, 50},
   fail_code : {0, 2038},
   has_item_list : {TRUE},
   item_list : SeqsUpTo(ImageItems, MaxItems)]
  \cup
  [present : BOOLEAN,
   status : {10, 20, 30, 50},
   fail_code : {0, 2038},
   has_item_list : {FALSE},
   item_list : {<<>>}]

\* results: null, or a list of {url}
NullResults == [null |-> TRUE, list |-> <<>>]
ResultList(urls) == [null |-> FALSE, list |-> [k \in 1..Len(urls) |-> [url |-> urls[k]]]]

\* async-tasks.ts:676: taskInfo.item_list || []
ItemListOf(rec) == IF rec.has_item_list THEN rec.item_list ELSE <<>>

\* faulty variant: results starts as an empty list instead of null
ImageResultsEmptyList(itemList) ==
  IF Len(itemList) > 0 /\ itemList[1].has_image
  THEN ResultList(extractImageUrls(itemList))
  ELSE ResultList(<<>>)

\* async-tasks.ts:678-686
ImageResults(itemList) ==
  IF Len(itemList) > 0 /\ itemList[1].has_image
  THEN (IF Len(extractImageUrls(itemList)) > 0
        THEN ResultList(extractImageUrls(itemList))
        ELSE NullResults)
  ELSE NullResults

\* async-tasks.ts:669-699
ImageTaskStatus(resp) ==
  IF ~resp.present
  THEN Throw("API_IMAGE_GENERATION_FAILED", "task_not_found")
  ELSE Return([task_type |-> "image",
               status |-> resp.status,
               fail_code |-> resp.fail_code,
               item_count |-> Len(ItemListOf(resp)),
               results |-> ImageResults(ItemListOf(resp))])

HistoryRequest(rejected) == [fn |-> "request:/mweb/v1/get_history_by_ids", rejected |-> rejected]

\* the whole function: await request(...), then reduce the record
QueryImageTaskStatus ==
  /\ op = "idle"
  /\ op' = "queryImage"
  /\ entry' = "direct"
  /\ \E resp \in ImageHistoryResponses, rejected \in BOOLEAN :
       /\ calls' = Append(calls, HistoryRequest(rejected))
       /\ args' = [response |-> resp]
       /\ ret' = IF rejected THEN TransportFailure ELSE ImageTaskStatus(resp)
  /\ pc' = "done"
  /\ UNCHANGED <<i, uploadedImageIds, uploadIDs>>

-----------------------------------------------------------------------------
(* Video URL extraction and queryVideoTaskStatus *)

\* A URL value of a video response: its host decides whether the pattern
\* /https:\/\/v[0-9]+-artist\.vlabvod\.com\/[^"\s]+/ matches it; `at` names
\* the place of the response that carries it.
NoUrl == [host |-> "none", at |-> "none"]
CdnUrl(at) == [host |-> "artist.vlabvod.com", at |-> at]
OtherUrl(at) == [host |-> "other", at |-> at]

UrlPresent(u) == u.host # "none"
MatchesCdn(u) == u.host = "artist.vlabvod.com"

FieldValues(at) == {NoUrl, CdnUrl(at), OtherUrl(at)}

\* the first item: item.video.transcoded_video.origin.video_url, play_url,
\* download_url, url
FirstVideoItems ==
  [transcoded : FieldValues("transcoded"),
   play_url : FieldValues("play_url"),
   download_url : FieldValues("download_url"),
   url : FieldValues("url")]

\* the items after the first
LaterVideoItems ==
  { [transcoded |-> NoUrl, play_url |-> NoUrl, download_url |-> NoUrl, url |-> NoUrl],
    [transcoded |-> CdnUrl("later"), play_url |-> NoUrl, download_url |-> NoUrl, url |-> NoUrl] }

VideoItemLists ==
  { <<>> } \cup
  { <<f>> \o rest : f \in FirstVideoItems, rest \in SeqsUpTo(LaterVideoItems, MaxItems - 1) }

VideoStatusCodes == {10, 20, 30, 50, 0, 42}

\* the vendor's answer, as far as queryVideoTaskStatus reads it; `extra` is a
\* string elsewhere in the response (outside result[historyId].item_list)
VideoHistoryResponses ==
  [present : {TRUE},
   status : VideoStatusCodes,
   fail_code : {0, 2038},
   has_item_list : {TRUE},
   item_list : VideoItemLists,
   extra : {NoUrl, CdnUrl("extra")}]
  \cup
  [present : BOOLEAN,
   status : VideoStatusCodes,
   fail_code : {0, 2038},
   has_item_list : {FALSE},
   item_list : {<<>>},
   extra : {NoUrl, CdnUrl("extra")}]

\* JSON.stringify(result): the string values of the response in the order
\* they are written: the items in order (each field in order), then the rest
ItemStrings(item) == <<item.transcoded, item.play_url, item.download_url, item.url>>

RECURSIVE ListStrings(_)
ListStrings(items) ==
  IF Len(items) = 0 THEN <<>> ELSE ItemStrings(Head(items)) \o ListStrings(Tail(items))

Serialized(resp) == ListStrings(ItemListOf(resp)) \o <<resp.extra>>

\* responseStr.match(...): the first match, or none
VideoUrlMatch(resp) ==
  IF \E k \in 1..Len(Serialized(resp)) : MatchesCdn(Serialized(resp)[k])
  THEN Serialized(resp)[CHOOSE k \in 1..Len(Serialized(resp)) :
                          /\ MatchesCdn(Serialized(resp)[k])
                          /\ \A j \in 1..(k - 1) : ~MatchesCdn(Serialized(resp)[j])]
  ELSE NoUrl

\* faulty variant: download_url is preferred to play_url, the order of
\* fetchHighQualityVideoUrl
extractVideoUrlDownloadFirst(item) ==
  IF UrlPresent(item.transcoded) THEN item.transcoded
  ELSE IF UrlPresent(item.download_url) THEN item.download_url
  ELSE IF UrlPresent(item.play_url) THEN item.play_url
  ELSE IF UrlPresent(item.url) THEN item.url
  ELSE NoUrl

\* part_000:102-121
extractVideoUrl(item) ==
  IF UrlPresent(item.transcoded) THEN item.transcoded
  ELSE IF UrlPresent(item.play_url) THEN item.play_url
  ELSE IF UrlPresent(item.download_url) THEN item.download_url
  ELSE IF UrlPresent(item.url) THEN item.url
  ELSE NoUrl

\* async-tasks.ts:748-754
VideoUrlOf(resp) ==
  IF UrlPresent(VideoUrlMatch(resp)) THEN VideoUrlMatch(resp)
  ELSE IF Len(ItemListOf(resp)) > 0 THEN extractVideoUrl(ItemListOf(resp)[1])
  ELSE NoUrl

\* faulty variant: raw status 10 counts as completed whether or not a URL
\* was extracted
StatusMappingTenCompletes(currentStatus, videoUrl) ==
  IF currentStatus = 20 THEN "processing"
  ELSE IF currentStatus = 10 THEN "completed"
  ELSE IF currentStatus = 30
       THEN (IF UrlPresent(videoUrl) THEN "completed" ELSE "processing")
  ELSE IF currentStatus = 50
       THEN (IF UrlPresent(videoUrl) THEN "completed" ELSE "failed")
  ELSE "unknown"

\* faulty variant: a raw status outside the table counts as a failure
StatusMappingNoUnknown(currentStatus, videoUrl) ==
  IF currentStatus = 20 THEN "processing"
  ELSE IF currentStatus = 10 \/ currentStatus = 30
       THEN (IF UrlPresent(videoUrl) THEN "completed" ELSE "processing")
  ELSE IF UrlPresent(videoUrl) THEN "completed" ELSE "failed"

\* async-tasks.ts:757-760
StatusMapping(currentStatus, videoUrl) ==
  IF currentStatus = 20 THEN "processing"
  ELSE IF currentStatus = 10 \/ currentStatus = 30
       THEN (IF UrlPresent(videoUrl) THEN "completed" ELSE "processing")
  ELSE IF currentStatus = 50
       THEN (IF UrlPresent(videoUrl) THEN "completed" ELSE "failed")
  ELSE "unknown"

\* faulty variant: without the final override by the URL's presence
StatusTextNoOverride(currentStatus, videoUrl) ==
  StatusMapping(currentStatus, videoUrl)

\* async-tasks.ts:756-765: the mapping, then if (videoUrl) statusText = 'completed'
StatusText(currentStatus, videoUrl) ==
  IF UrlPresent(videoUrl) THEN "completed"
  ELSE StatusMapping(currentStatus, videoUrl)

\* faulty variant: a missing record is an error, as in queryImageTaskStatus
RecordNotFoundThrows == Throw("API_IMAGE_GENERATION_FAILED", "task_not_found")

\* async-tasks.ts:730-740
RecordNotFound ==
  Return([status |-> "processing", statusCode |-> 20, failCode |-> 0,
          videoUrl |-> NoUrl, hasRawData |-> FALSE])

\* async-tasks.ts:726-777
VideoTaskStatus(resp) ==
  IF ~resp.present
  THEN RecordNotFound
  ELSE Return([status |-> StatusText(resp.status, VideoUrlOf(resp)),
               statusCode |-> resp.status,
               failCode |-> resp.fail_code,
               videoUrl |-> VideoUrlOf(resp),
               hasRawData |-> TRUE])

\* the whole function: await request(...), then normalize the record
QueryVideoTaskStatus ==
  /\ op = "idle"
  /\ op' = "queryVideo"
  /\ entry' = "direct"
  /\ \E resp \in VideoHistoryResponses, rejected \in BOOLEAN :
       /\ calls' = Append(calls, HistoryRequest(rejected))
       /\ args' = [response |-> resp]
       /\ ret' = IF rejected THEN TransportFailure ELSE VideoTaskStatus(resp)
  /\ pc' = "done"
  /\ UNCHANGED <<i, uploadedImageIds, uploadIDs>>

-----------------------------------------------------------------------------
(* fetchHighQualityVideoUrl: src/unnamed/part_000 (lib/image-utils.ts) *)

\* A URL value of a get_local_item_list answer.  Its host decides which of the
\* three patterns match it:
\*   /https:\/\/v[0-9]+-dreamnia\.jimeng\.com\/[^"\s\\]+/
\*   /https:\/\/v[0-9]+-[^"\\]*\.jimeng\.com\/[^"\s\\]+/
\*   /https:\/\/v[0-9]+-[^"\\]*\.(vlabvod|jimeng)\.com\/[^"\s\\]+/
HqUrl(host, at) == [host |-> host, at |-> at]

MatchesDreamnia(u) == u.host = "dreamnia.jimeng.com"
MatchesJimeng(u) == u.host \in {"dreamnia.jimeng.com", "cdn.jimeng.com"}
MatchesVideoHost(u) == u.host \in {"dreamnia.jimeng.com", "cdn.jimeng.com", "artist.vlabvod.com"}

\* the hosts of the strings found outside the first item
HqHosts == {"dreamnia.jimeng.com", "cdn.jimeng.com", "artist.vlabvod.com", "other"}

\* the first item of item_list: each of the four fields absent, or a URL
HqFieldValues(at) == {NoUrl, HqUrl("other", at), HqUrl("cdn.jimeng.com", at)}

HqItems ==
  [transcoded : HqFieldValues("transcoded"),
   download_url : HqFieldValues("download_url"),
   play_url : HqFieldValues("play_url"),
   url : HqFieldValues("url")]

HqEmptyItem == [transcoded |-> NoUrl, download_url |-> NoUrl, play_url |-> NoUrl, url |-> NoUrl]

\* local_item_list, when the answer carries one
HqLocalItems ==
  { HqEmptyItem,
    [HqEmptyItem EXCEPT !.play_url = HqUrl("artist.vlabvod.com", "local.play_url")],
    [HqEmptyItem EXCEPT !.url = HqUrl("other", "local.url")] }

\* how many strings the answer holds outside its item lists
MaxExtras == 2

\* The answer to POST /mweb/v1/get_local_item_list:
\*   rejected: request() threw
\*   shape: "null" when the call resolved with no object
\*   item_list, local_item_list: absent, or a list
\*   extras: the other strings of the answer, in the order they are serialized
HqAnswers ==
  [rejected : {FALSE}, shape : {"object"},
   has_item_list : {TRUE}, item_list : {<<>>} \cup { <<it>> : it \in HqItems },
   has_local : BOOLEAN, local_item_list : { <<it>> : it \in HqLocalItems },
   extras : SeqsUpTo({ HqUrl(h, "extra") : h \in HqHosts }, MaxExtras)]
  \cup
  [rejected : {FALSE}, shape : {"object"},
   has_item_list : {FALSE}, item_list : {<<>>},
   has_local : BOOLEAN, local_item_list : { <<it>> : it \in HqLocalItems },
   extras : SeqsUpTo({ HqUrl(h, "extra") : h \in HqHosts }, MaxExtras)]
  \cup
  [rejected : BOOLEAN, shape : {"null"},
   has_item_list : {FALSE}, item_list : {<<>>},
   has_local : {FALSE}, local_item_list : {<<HqEmptyItem>>},
   extras : {<<>>}]

\* part_000:150: result.item_list || result.local_item_list || []
\* (an empty array is truthy: an empty item_list hides local_item_list)
HqItemList(answer) ==
  IF answer.has_item_list THEN answer.item_list
  ELSE IF answer.has_local THEN answer.local_item_list
  ELSE <<>>

\* part_000:153-157: the first truthy of the four fields
HqStructured(item) ==
  IF UrlPresent(item.transcoded) THEN item.transcoded
  ELSE IF UrlPresent(item.download_url) THEN item.download_url
  ELSE IF UrlPresent(item.play_url) THEN item.play_url
  ELSE IF UrlPresent(item.url) THEN item.url
  ELSE NoUrl

HqItemStrings(item) == <<item.transcoded, item.download_url, item.play_url, item.url>>

RECURSIVE HqListStrings(_)
HqListStrings(items) ==
  IF Len(items) = 0 THEN <<>> ELSE HqItemStrings(Head(items)) \o HqListStrings(Tail(items))

\* part_000:146: JSON.stringify(result), as the sequence of its string values
HqSerialized(answer) ==
  (IF answer.has_item_list THEN HqListStrings(answer.item_list) ELSE <<>>)
  \o (IF answer.has_local THEN HqListStrings(answer.local_item_list) ELSE <<>>)
  \o answer.extras

\* the three regular expressions of part_000:165, 172 and 179
Matching(pattern, u) ==
  IF pattern = "dreamnia" THEN MatchesDreamnia(u)
  ELSE IF pattern = "jimeng" THEN MatchesJimeng(u)
  ELSE MatchesVideoHost(u)

\* String.prototype.match without the g flag: the leftmost match, or null
FirstMatch(text, pattern) ==
  IF \E k \in 1..Len(text) : Matching(pattern, text[k])
  THEN text[CHOOSE k \in 1..Len(text) :
              /\ Matching(pattern, text[k])
              /\ \A j \in 1..(k - 1) : ~Matching(pattern, text[j])]
  ELSE NoUrl

\* faulty variant: only the widest pattern is tried
HqPatternsWidestOnly(text) == FirstMatch(text, "videohost")

\* part_000:165-184: the three patterns, in order
HqPatterns(text) ==
  IF UrlPresent(FirstMatch(text, "dreamnia")) THEN FirstMatch(text, "dreamnia")
  ELSE IF UrlPresent(FirstMatch(text, "jimeng")) THEN FirstMatch(text, "jimeng")
  ELSE IF UrlPresent(FirstMatch(text, "videohost")) THEN FirstMatch(text, "videohost")
  ELSE NoUrl

\* part_000:131-192.  Everything is inside try { } catch { return null }:
\* a rejected request, and the TypeError of reading a property of a null
\* result, both end in null.
fetchHighQualityVideoUrl(answer) ==
  IF answer.rejected THEN Return(NoUrl)
  ELSE IF answer.shape = "null" THEN Return(NoUrl)
  ELSE IF Len(HqItemList(answer)) > 0 /\ UrlPresent(HqStructured(HqItemList(answer)[1]))
       THEN Return(HqStructured(HqItemList(answer)[1]))
  ELSE Return(HqPatterns(HqSerialized(answer)))

LocalItemRequest(rejected) ==
  [fn |-> "request:/mweb/v1/get_local_item_list", rejected |-> rejected]

\* the whole function
FetchHighQualityVideoUrl ==
  /\ op = "idle"
  /\ op' = "fetchHighQuality"
  /\ entry' = "direct"
  /\ \E answer \in HqAnswers :
       /\ calls' = Append(calls, LocalItemRequest(answer.rejected))
       /\ args' = [response |-> answer]
       /\ ret' = fetchHighQualityVideoUrl(answer)
  /\ pc' = "done"
  /\ UNCHANGED <<i, uploadedImageIds, uploadIDs>>

-----------------------------------------------------------------------------
(* extractImageUrlInfo: src/unnamed/part_000 (lib/image-utils.ts) *)

\* faulty variant: the smallest size is tried first
normalSizeKeysAscending == <<"360", "480", "720", "1080", "2400">>

\* part_000:62
normalSizeKeys == <<"2400", "1080", "720", "480", "360">>

\* the keys of cover_url_map: the five sizes of the normal scene and a
\* smart_crop key (the image_scene_list of async-tasks.ts:654-664)
CoverKeys == {"2400", "1080", "720", "480", "360", "smart_crop-w:360-h:360"}

\* the URL the vendor sends under a key, ampersands escaped; the key stands
\* for the path segment that names the size
CoverUrl(key) == <<key, "?", "a">> \o Escaped \o <<"b">> \o Escaped \o <<"c">>

\* coverMap[key]: undefined (the key is absent), the empty string, or a URL
CoverValues(key) == {Null, <<>>, CoverUrl(key)}

CoverMaps ==
  { f \in [CoverKeys -> UNION { CoverValues(k) : k \in CoverKeys }] :
      \A k \in CoverKeys : f[k] \in CoverValues(k) }

NoCoverMap == [k \in CoverKeys |-> Null]

\* a truthy string value
Present(v) == v # Null /\ Truthy(v)

\* a response item, as far as extractImageUrlInfo reads it:
\*   has_image, image_url: as for extractImageUrl
\*   cover_url: item.common_attr.cover_url, <<>> when missing
\*   cover_kind: what item.common_attr.cover_url_map is: absent, an object, or
\*               a value that is no object (a string)
\*   cover_url_map: the object
InfoItems ==
  [has_image : {TRUE}, image_url : {<<>>, <<"b", "?">> \o Escaped \o Escaped \o <<"z">> \o Escaped},
   cover_url : {<<>>, <<"c", "?", "x">> \o Escaped \o <<"y">>},
   cover_kind : {"object"}, cover_url_map : CoverMaps]
  \cup
  [has_image : BOOLEAN, image_url : {<<>>},
   cover_url : {<<>>, <<"c", "?", "x">> \o Escaped \o <<"y">>},
   cover_kind : {"absent", "string"}, cover_url_map : {NoCoverMap}]

\* part_000:63-67: every key with a truthy value, unescaped
WebpSizes(coverMap) ==
  [k \in CoverKeys |-> IF Present(coverMap[k]) THEN Unescape(coverMap[k]) ELSE Null]

\* part_000:69-74: the first key of the list with a truthy size, or null
RECURSIVE FirstSize(_, _)
FirstSize(sizes, keys) ==
  IF Len(keys) = 0 THEN Null
  ELSE IF Present(sizes[Head(keys)]) THEN sizes[Head(keys)]
  ELSE FirstSize(sizes, Tail(keys))

\* part_000:45-79
extractImageUrlInfo(item) ==
  LET isMap == item.cover_kind = "object"
      sizes == IF isMap THEN WebpSizes(item.cover_url_map) ELSE NoCoverMap
  IN [png |-> IF item.has_image /\ Truthy(item.image_url) THEN Unescape(item.image_url) ELSE Null,
      webp |-> IF Truthy(item.cover_url) THEN Unescape(item.cover_url) ELSE Null,
      webp_long |-> IF isMap THEN FirstSize(sizes, normalSizeKeys) ELSE Null,
      webp_sizes |-> sizes]

\* the function applied to one item
ExtractImageUrlInfo ==
  /\ op = "idle"
  /\ op' = "extractImageUrlInfo"
  /\ entry' = "direct"
  /\ \E item \in InfoItems :
       /\ args' = [item |-> item]
       /\ ret' = Return(extractImageUrlInfo(item))
  /\ pc' = "done"
  /\ UNCHANGED <<i, uploadedImageIds, uploadIDs, calls>>

\* extractImageUrls applied to an item list
ExtractImageUrls ==
  /\ op = "idle"
  /\ op' = "extractImageUrls"
  /\ entry' = "direct"
  /\ \E itemList \in SeqsUpTo(ImageItems, MaxItems) :
       /\ args' = [itemList |-> itemList]
       /\ ret' = Return(extractImageUrls(itemList))
  /\ pc' = "done"
  /\ UNCHANGED <<i, uploadedImageIds, uploadIDs, calls>>

-----------------------------------------------------------------------------
(* queryCredits and GET /v1/async/credits *)

\* new APIException(EX.API_REQUEST_FAILED, `积分查询失败: ...`)
CreditsQueryFailed == Throw("API_REQUEST_FAILED", "credits_query_failed")

\* What await getCredit(refreshToken) can do: reject (a transport error, or a
\* vendor answer getCredit cannot read), resolve with no object, or resolve
\* with the balances.
CreditAnswers ==
  { [out |-> o, credits |-> [totalCredit |-> 0, giftCredit |-> 0, purchaseCredit |-> 0, vipCredit |-> 0]] :
      o \in {"reject", "null"} }
  \cup
  { [out |-> "ok", credits |-> c] :
      c \in [totalCredit : {0, 23}, giftCredit : {0, 5}, purchaseCredit : {0, 7}, vipCredit : {0, 11}] }

\* faulty variant: without the try/catch, the failure of the call is surfaced
\* as it is
queryCreditsNoCatch(answer) ==
  IF answer.out = "reject" THEN TransportFailure
  ELSE IF answer.out = "null" THEN TypeError
  ELSE Return(answer.credits)

\* async-tasks.ts:785-796.  credits.totalCredit is read inside the try block,
\* so a result that is no object ends in the catch block as well.
queryCredits(answer) ==
  IF answer.out = "reject" THEN CreditsQueryFailed
  ELSE IF answer.out = "null" THEN CreditsQueryFailed
  ELSE Return(answer.credits)

\* routes/async-tasks.ts:288-296
CreditsReply(credits) ==
  [credits |-> [total |-> credits.totalCredit,
                gift |-> credits.giftCredit,
                purchase |-> credits.purchaseCredit,
                vip |-> credits.vipCredit]]

CreditCall(answer) == [fn |-> "getCredit", out |-> answer.out]

\* the exported function called as such
QueryCredits ==
  /\ op = "idle"
  /\ op' = "credits"
  /\ entry' = "direct"
  /\ \E answer \in CreditAnswers :
       /\ calls' = Append(calls, CreditCall(answer))
       /\ args' = [response |-> answer]
       /\ ret' = queryCredits(answer)
  /\ pc' = "done"
  /\ UNCHANGED <<i, uploadedImageIds, uploadIDs>>

\* "/credits": await queryCredits(token), then reshape; an error passes through
CreditsRoute ==
  /\ op = "idle"
  /\ op' = "credits"
  /\ entry' = "route"
  /\ \E answer \in CreditAnswers :
       /\ calls' = Append(calls, CreditCall(answer))
       /\ args' = [response |-> answer]
       /\ ret' = IF queryCredits(answer).kind = "return"
                 THEN Return(CreditsReply(queryCredits(answer).value))
                 ELSE queryCredits(answer)
  /\ pc' = "done"
  /\ UNCHANGED <<i, uploadedImageIds, uploadIDs>>

-----------------------------------------------------------------------------
Init ==
  /\ op = "idle"
  /\ entry = "direct"
  /\ pc = "idle"
  /\ args = NoArgs
  /\ i = 0
  /\ uploadedImageIds = <<>>
  /\ uploadIDs = <<>>
  /\ calls = <<>>
  /\ ret = Pending

Next ==
  \/ CompositionDirect
  \/ CompositionRoute
  \/ CompositionUpload
  \/ CompositionSubmit
  \/ ImageGeneration
  \/ VideoDirect
  \/ VideoRoute
  \/ VideoSkip
  \/ VideoUpload
  \/ VideoSubmit
  \/ QueryImageTaskStatus
  \/ QueryVideoTaskStatus
  \/ FetchHighQualityVideoUrl
  \/ ExtractImageUrlInfo
  \/ ExtractImageUrls
  \/ QueryCredits
  \/ CreditsRoute

Spec == Init /\ [][Next]_vars

\* The calls of createImageCompositionTask and createVideoGenerationTask alone.
\* Every await of a call is eventually resumed: the collaborator call it waits
\* for returns or fails, and the function goes on from there.
CreationNext ==
  \/ CompositionDirect
  \/ CompositionRoute
  \/ CompositionUpload
  \/ CompositionSubmit
  \/ VideoDirect
  \/ VideoRoute
  \/ VideoSkip
  \/ VideoUpload
  \/ VideoSubmit

LiveSpec ==
  /\ Init
  /\ [][CreationNext]_vars
  /\ WF_vars(CompositionUpload)
  /\ WF_vars(CompositionSubmit)
  /\ WF_vars(VideoSkip)
  /\ WF_vars(VideoUpload)
  /\ WF_vars(VideoSubmit)

-----------------------------------------------------------------------------
(* Concurrent task-creation calls

   The server awaits each call on its own; between two awaits of one call any
   other call may run.  Each call has its own locals (they are declared inside
   the function bodies), so in this specification every variable of a call
   holds one value per call: op[c], args[c], pc[c], i[c], uploadedImageIds[c],
   uploadIDs[c], calls[c], ret[c]. *)

\* the calls in flight
ConcCalls == {"A", "B"}

\* how many images a concurrent call carries at most
MaxConcImages == 2

\* what the calls are given: a composition of 1..MaxConcImages images, or a
\* video with up to MaxConcImages file paths
ConcInputs ==
  { [kind |-> "composition", images |-> ImageList(n, "mixed"), filePaths |-> <<>>] :
      n \in 1..MaxConcImages }
  \cup
  { [kind |-> "video", images |-> <<>>, filePaths |-> ps] :
      ps \in SeqsUpTo({"url", "empty"}, MaxConcImages) }

\* the generate answers of the concurrent calls: rejected, without aigc_data,
\* or with an id
ConcAnswers ==
  { a \in GenerateAnswers : a.rejected \/ ~a.aigc_data \/ a.history_record_id = <<"h", 1>> }

\* the asset id the vendor issues to call c for its image r
ConcIdOf(c, outcome, r) == IF outcome = "ok" THEN AssetId(<<c, r>>) ELSE EmptyId

\* faulty variant: one id array at module level, shared by all the calls
SharedIds(ids, c) == ids["A"] \o ids["B"]

\* async-tasks.ts:156 `const uploadedImageIds: string[] = []` and
\* async-tasks.ts:390 `let uploadIDs: string[] = []` are locals of the call
OwnIds(ids, c) == ids[c]

\* one iteration of the loop of createImageCompositionTask (157-174) in call c
ConcCompositionUpload(c) ==
  /\ op[c] = "composition"
  /\ pc[c] = "comp_upload"
  /\ i[c] < Len(args[c].images)
  /\ \E outcome \in UploadOutcomes :
       LET image == args[c].images[i[c] + 1]
           id == ConcIdOf(c, outcome, image.ref)
       IN /\ calls' = [calls EXCEPT ![c] =
                         Append(@, [fn |-> UploadFnOf(image), idx |-> i[c], out |-> outcome, id |-> id])]
          /\ IF outcome = "fail"
             THEN /\ ret' = [ret EXCEPT ![c] = UploadFailure]
                  /\ pc' = [pc EXCEPT ![c] = "done"]
                  /\ UNCHANGED <<i, uploadedImageIds>>
             ELSE /\ uploadedImageIds' = [uploadedImageIds EXCEPT ![c] = Append(OwnIds(uploadedImageIds, c), id)]
                  /\ i' = [i EXCEPT ![c] = @ + 1]
                  /\ UNCHANGED <<pc, ret>>
  /\ UNCHANGED <<op, entry, args, uploadIDs>>

\* the submission of createImageCompositionTask (176-254) in call c
ConcCompositionSubmit(c) ==
  /\ op[c] = "composition"
  /\ pc[c] = "comp_upload"
  /\ i[c] >= Len(args[c].images)
  /\ \E answer \in ConcAnswers :
       /\ calls' = [calls EXCEPT ![c] =
                      Append(@, [fn |-> "request:/mweb/v1/aigc_draft/generate",
                                 answer |-> answer,
                                 abilityIds |-> OwnIds(uploadedImageIds, c),
                                 first_frame_image |-> NoFrame,
                                 end_frame_image |-> NoFrame])]
       /\ ret' = [ret EXCEPT ![c] = HistoryIdOptional(answer)]
  /\ pc' = [pc EXCEPT ![c] = "done"]
  /\ UNCHANGED <<op, entry, args, i, uploadedImageIds, uploadIDs>>

\* if (!filePath) continue   in call c
ConcVideoSkip(c) ==
  /\ op[c] = "video"
  /\ pc[c] = "video_upload"
  /\ i[c] < Len(args[c].filePaths)
  /\ args[c].filePaths[i[c] + 1] = "empty"
  /\ i' = [i EXCEPT ![c] = @ + 1]
  /\ UNCHANGED <<op, entry, pc, args, uploadedImageIds, uploadIDs, calls, ret>>

\* one iteration of the filePaths loop of createVideoGenerationTask (419-447)
\* in call c
ConcVideoUpload(c) ==
  /\ op[c] = "video"
  /\ pc[c] = "video_upload"
  /\ i[c] < Len(args[c].filePaths)
  /\ args[c].filePaths[i[c] + 1] # "empty"
  /\ \E outcome \in UploadOutcomes :
       LET id == ConcIdOf(c, outcome, i[c] + 1)
       IN /\ calls' = [calls EXCEPT ![c] =
                         Append(@, [fn |-> "uploadImageBuffer", idx |-> i[c], out |-> outcome, id |-> id])]
          /\ IF Rejects(outcome)
             THEN IF VideoCatchThrows(i[c])
                  THEN /\ ret' = [ret EXCEPT ![c] = FirstFrameFailure]
                       /\ pc' = [pc EXCEPT ![c] = "done"]
                       /\ UNCHANGED <<i, uploadIDs>>
                  ELSE /\ i' = [i EXCEPT ![c] = @ + 1]
                       /\ UNCHANGED <<pc, ret, uploadIDs>>
             ELSE /\ uploadIDs' = [uploadIDs EXCEPT ![c] = VideoPush(OwnIds(uploadIDs, c), id)]
                  /\ i' = [i EXCEPT ![c] = @ + 1]
                  /\ UNCHANGED <<pc, ret>>
  /\ UNCHANGED <<op, entry, args, uploadedImageIds>>

\* the frames and the submission of createVideoGenerationTask (452-636) in call c
ConcVideoSubmit(c) ==
  /\ op[c] = "video"
  /\ pc[c] = "video_upload"
  /\ i[c] >= Len(args[c].filePaths)
  /\ \E answer \in ConcAnswers :
       /\ calls' = [calls EXCEPT ![c] =
                      Append(@, [fn |-> "request:/mweb/v1/aigc_draft/generate",
                                 answer |-> answer,
                                 abilityIds |-> <<>>,
                                 first_frame_image |-> FrameAt(OwnIds(uploadIDs, c), 0),
                                 end_frame_image |-> FrameAt(OwnIds(uploadIDs, c), 1)])]
       /\ ret' = [ret EXCEPT ![c] = HistoryIdStrict(answer)]
  /\ pc' = [pc EXCEPT ![c] = "done"]
  /\ UNCHANGED <<op, entry, args, i, uploadedImageIds, uploadIDs>>

\* every call has been entered with its arguments and has not yet awaited
ConcInit ==
  /\ args \in [ConcCalls -> ConcInputs]
  /\ op = [c \in ConcCalls |-> args[c].kind]
  /\ entry = [c \in ConcCalls |-> "direct"]
  /\ pc = [c \in ConcCalls |-> IF args[c].kind = "composition" THEN "comp_upload" ELSE "video_upload"]
  /\ i = [c \in ConcCalls |-> 0]
  /\ uploadedImageIds = [c \in ConcCalls |-> <<>>]
  /\ uploadIDs = [c \in ConcCalls |-> <<>>]
  /\ calls = [c \in ConcCalls |-> <<>>]
  /\ ret = [c \in ConcCalls |-> Pending]

ConcNext ==
  \/ \E c \in ConcCalls : ConcCompositionUpload(c)
  \/ \E c \in ConcCalls : ConcCompositionSubmit(c)
  \/ \E c \in ConcCalls : ConcVideoSkip(c)
  \/ \E c \in ConcCalls : ConcVideoUpload(c)
  \/ \E c \in ConcCalls : ConcVideoSubmit(c)

ConcSpec == ConcInit /\ [][ConcNext]_vars

-----------------------------------------------------------------------------
(* Properties *)

\* the controller function was entered (the route did not reject the request)
CompInvoked == op = "composition" /\ "images" \in DOMAIN args
VideoInvoked == op = "video" /\ "files" \in DOMAIN args
Rejected == "rejected" \in DOMAIN args

Creating == op \in {"imageGen", "composition", "video"}

\* a collaborator call for input index k failed
FailedAt(k) ==
  \E j \in 1..Len(calls) :
    ~IsGenerateCall(calls[j]) /\ calls[j].idx = k /\ calls[j].out = "fail"

\* C1: createImageCompositionTask uploads its images one at a time in caller
\* order, upload k+1 only after upload k succeeded; a failed upload is the last
\* one made, raises the upload failure at once and no generate request is sent;
\* when all succeed the request is built from one id per image, in input order.
C1_SequentialUploads ==
  CompInvoked =>
    LET ups == UploadCalls
        n == Len(args.images)
    IN /\ Len(ups) <= n
       /\ \A k \in 1..Len(ups) :
            /\ ups[k].idx = k - 1
            /\ ups[k].fn = UploadFnOf(args.images[k])
       /\ \A k \in 1..(Len(ups) - 1) : ups[k].out # "fail"
       /\ (Len(ups) > 0 /\ ups[Len(ups)].out = "fail") =>
            /\ ret = UploadFailure
            /\ pc = "done"
            /\ GenerateCalls = <<>>
       /\ ret = UploadFailure => (ups[Len(ups)].out = "fail" /\ GenerateCalls = <<>>)
       /\ GenerateCalls # <<>> =>
            /\ Len(ups) = n
            /\ Len(GenerateCalls) = 1
            /\ Len(GenerateCalls[1].abilityIds) = n
            /\ GenerateCalls[1].placeholders = n
            /\ \A k \in 1..n : GenerateCalls[1].abilityIds[k] = ups[k].id

\* C1 witness: the third of at least five images fails to upload
C1_Witness ==
  /\ CompInvoked
  /\ Len(args.images) >= 5
  /\ Len(UploadCalls) = 3
  /\ UploadCalls[3].out = "fail"
  /\ ret = UploadFailure

\* C2 as claimed: in createVideoGenerationTask a failure on the first image
\* aborts; a failure on a non-first image never aborts, and the generate request
\* is sent without an end-frame image.
C2_Original ==
  VideoInvoked =>
    /\ FailedAt(0) => (ret = FirstFrameFailure /\ GenerateCalls = <<>>)
    /\ (\E k \in 1..(Len(Source) - 1) : FailedAt(k)) =>
         /\ ret # FirstFrameFailure
         /\ pc = "done" =>
              /\ Len(GenerateCalls) = 1
              /\ ~GenerateCalls[1].end_frame_image.set

\* What holds of C2 on the code: a failure on the first image (index 0)
\* aborts with no generate request; a failure on a non-first image never
\* aborts: the generate request is sent, no frame of it comes from the failed
\* image, and it has no end-frame image when at most 2 images were supplied.
C2_FirstFatalOthersTolerated ==
  VideoInvoked =>
    /\ FailedAt(0) => (ret = FirstFrameFailure /\ pc = "done" /\ GenerateCalls = <<>>)
    /\ \A k \in 1..(Len(Source) - 1) :
         FailedAt(k) =>
           /\ ret # FirstFrameFailure
           /\ pc = "done" =>
                /\ Len(GenerateCalls) = 1
                /\ GenerateCalls[1].first_frame_image.uri # AssetId(k + 1)
                /\ GenerateCalls[1].end_frame_image.uri # AssetId(k + 1)
                /\ Len(Source) <= MaxVideoImages => ~GenerateCalls[1].end_frame_image.set

\* of two images the second fails, and the request goes out with
\* the first frame only
C2_Witness ==
  /\ VideoInvoked
  /\ Len(Source) = 2
  /\ FailedAt(1)
  /\ pc = "done"
  /\ Len(GenerateCalls) = 1
  /\ GenerateCalls[1].first_frame_image.set
  /\ ~GenerateCalls[1].end_frame_image.set

\* C3 as claimed: createImageCompositionTask invoked with 0 or 11 images fails
\* validation before any upload and any generate request; with 1 or 10 images
\* every image is uploaded in input order.
C3_Original ==
  CompInvoked =>
    /\ Len(args.images) \in {0, MaxCompositionImages + 1} =>
         /\ calls = <<>>
         /\ pc = "done" => ret.kind = "throw"
    /\ (Len(args.images) \in {1, MaxCompositionImages} /\ GenerateCalls # <<>>) =>
         Indices(UploadCalls) = [k \in 1..Len(args.images) |-> k - 1]

\* What holds of C3 on the code: the /images/compositions handler rejects a request of 0 or 11
\* images with a validation error before createImageCompositionTask is called,
\* so before any upload or generate request, and calls it with 1..10 images only;
\* the function itself checks no count: called directly with any number of
\* images (0 and 11 included) it uploads them in input order and, unless an
\* upload fails, sends the generate request after uploading every one.
C3_RouteValidatesCount ==
  op = "composition" =>
    /\ (entry = "route" /\ Rejected) =>
         /\ calls = <<>>
         /\ pc = "done"
         /\ ret = Throw("Error", CompositionValidation(args.rejected))
         /\ ret.msg # "ok"
    /\ (entry = "route" /\ Rejected /\ args.rejected.bad = "none"
          /\ ~(args.rejected.form = "multipart" /\ args.rejected.files = "absent")) =>
         (args.rejected.n = 0 \/ args.rejected.n > MaxCompositionImages)
    /\ (entry = "route" /\ CompInvoked) => Len(args.images) \in 1..MaxCompositionImages
    /\ CompInvoked =>
         /\ \A k \in 1..Len(UploadCalls) : UploadCalls[k].idx = k - 1
         /\ (pc = "done" /\ ret # UploadFailure) =>
              /\ Len(GenerateCalls) = 1
              /\ Indices(UploadCalls) = [k \in 1..Len(args.images) |-> k - 1]

\* the route rejects 11 images
C3_Witness ==
  /\ op = "composition"
  /\ entry = "route"
  /\ Rejected
  /\ args.rejected.n = MaxCompositionImages + 1
  /\ ret = Throw("Error", "at_most_10_images")

\* C4 as claimed: createVideoGenerationTask given more than 2 images (files or
\* filePaths) fails validation before any upload is attempted.
C4_Original ==
  (VideoInvoked /\ (Len(args.files) > MaxVideoImages \/ Len(args.filePaths) > MaxVideoImages)) =>
    /\ calls = <<>>
    /\ pc = "done" => ret.kind = "throw"

\* every entry of the list in use that is not skipped has been fetched
AllEntriesProcessed ==
  \A k \in 1..Len(Source) :
    Source[k] \notin {"null", "empty"} =>
      \E j \in 1..Len(calls) : IsFetchCall(calls[j]) /\ calls[j].idx = k - 1

\* What holds of C4 on the code: the /videos/generations handler rejects more than 2 file paths
\* or more than 2 uploaded files before createVideoGenerationTask is called, so
\* no upload is made for such a request, and it calls the function with at most
\* 2 of each; the function itself checks no bound: called directly it processes
\* every entry it is given.
C4_RouteBoundsVideoImages ==
  op = "video" =>
    /\ (entry = "route" /\ Rejected) =>
         /\ calls = <<>>
         /\ pc = "done"
         /\ ret = Throw("Error", VideoValidation(args.rejected))
         /\ ret.msg # "ok"
    /\ (entry = "route" /\ VideoInvoked) =>
         /\ Len(args.files) <= MaxVideoImages
         /\ Len(args.filePaths) <= MaxVideoImages
    /\ (VideoInvoked /\ pc = "done" /\ ret # FirstFrameFailure) =>
         /\ AllEntriesProcessed
         /\ Len(GenerateCalls) = 1

\* the route rejects files under three field names
C4_Witness ==
  /\ op = "video"
  /\ entry = "route"
  /\ Rejected
  /\ Len(args.rejected.files) = MaxVideoImages + 1
  /\ ret = Throw("Error", "at_most_2_files")

\* the answer carries no history_record_id
CarriesNoId(answer) ==
  ~answer.rejected /\ (~answer.aigc_data \/ ~answer.has_id \/ ~Truthy(answer.history_record_id))

\* C5 as claimed: in each of the three creation functions, an answer without a
\* history_record_id (aigc_data absent, the id absent, or the id falsy) raises
\* the submission failure, and no falsy id is ever returned.
C5_Claim ==
  Creating =>
    /\ \A k \in 1..Len(GenerateCalls) :
         CarriesNoId(GenerateCalls[k].answer) => ret = SubmissionFailure
    /\ ret.kind = "return" => Truthy(ret.value)

\* at most one call of each collaborator per input index
OneAttemptPerIndex ==
  \A j, k \in 1..Len(calls) :
    (j # k /\ ~IsGenerateCall(calls[j]) /\ ~IsGenerateCall(calls[k])
       /\ calls[j].fn = calls[k].fn) => calls[j].idx # calls[k].idx

\* C6: a creation call issues the generate request at most once, at most one
\* upload attempt per input image and no history query; when it returns, the
\* value is the id of the answer to that one request, which was its last call.
C6_NoRetryNoPolling ==
  Creating =>
    /\ Len(GenerateCalls) <= 1
    /\ HistoryCalls = <<>>
    /\ OneAttemptPerIndex
    /\ ret.kind = "return" =>
         /\ Len(GenerateCalls) = 1
         /\ IsGenerateCall(calls[Len(calls)])
         /\ ret.value = GenerateCalls[1].answer.history_record_id

\* C6 witness: a video call that uploaded two images returns
C6_Witness ==
  /\ VideoInvoked
  /\ Len(UploadCalls) = 2
  /\ \E k \in 1..2 : UploadCalls[k].out = "empty"
  /\ ret.kind = "return"

\* the history request was answered
Answered == Len(calls) = 1 /\ IsHistoryCall(calls[1]) /\ ~calls[1].rejected

C8_RecordNotFound ==
  /\ (op = "queryVideo" /\ Answered /\ ~args.response.present) =>
       /\ ret.kind = "return"
       /\ ret.value.status = "processing"
       /\ ret.value.videoUrl = NoUrl
  /\ (op = "queryImage" /\ Answered /\ ~args.response.present) =>
       ret = Throw("API_IMAGE_GENERATION_FAILED", "task_not_found")

\* C8 witness: no record, and a CDN URL elsewhere in the answer
C8_Witness ==
  /\ op = "queryVideo"
  /\ Answered
  /\ ~args.response.present
  /\ MatchesCdn(args.response.extra)
  /\ ret.kind = "return"

\* C9: the effective duration is 8 for a veo3 key; else for sora2 12 for 12, 8
\* for 8, otherwise 4; else for 3.5_pro 12 for 12, 10 for 10, otherwise 5; else
\* 10 for 10 and 5 otherwise; duration_ms is 1000 times the videoDuration of the
\* scene options.
C9_DurationTable ==
  VideoInvoked =>
    \A k \in 1..Len(GenerateCalls) :
      LET m == args.model
          d == args.duration
          eff == GenerateCalls[k].sceneOption.videoDuration
      IN /\ Includes(m, S_veo3) => eff = 8
         /\ (~Includes(m, S_veo3) /\ Includes(m, S_sora2)) =>
              eff = (IF d = 12 THEN 12 ELSE IF d = 8 THEN 8 ELSE 4)
         /\ (~Includes(m, S_veo3) /\ ~Includes(m, S_sora2) /\ Includes(m, S_35pro)) =>
              eff = (IF d = 12 THEN 12 ELSE IF d = 10 THEN 10 ELSE 5)
         /\ (~Includes(m, S_veo3) /\ ~Includes(m, S_sora2) /\ ~Includes(m, S_35pro)) =>
              eff = (IF d = 10 THEN 10 ELSE 5)
         /\ GenerateCalls[k].duration_ms = 1000 * eff

\* C9 witness: a key holding both veo3 and sora2, 12 seconds requested, 8 sent
C9_Witness ==
  /\ VideoInvoked
  /\ Includes(args.model, S_veo3)
  /\ Includes(args.model, S_sora2)
  /\ args.duration = 12
  /\ Len(GenerateCalls) = 1
  /\ GenerateCalls[1].duration_ms = 8000

\* no item of the record carries a large-original-image URL
NoImageUrl(resp) ==
  \A k \in 1..Len(ItemListOf(resp)) :
    ~(ItemListOf(resp)[k].has_image /\ Truthy(ItemListOf(resp)[k].image_url))

\* C10 as claimed: for an existing record without item_list, with an empty one,
\* or with items that lack the image field, queryImageTaskStatus returns an
\* empty result list, raises nothing, and returns status and fail_code unchanged.
C10_Original ==
  (op = "queryImage" /\ Answered /\ args.response.present /\ NoImageUrl(args.response)) =>
    /\ ret.kind = "return"
    /\ ret.value.results = ResultList(<<>>)
    /\ ret.value.status = args.response.status
    /\ ret.value.fail_code = args.response.fail_code

\* C10 amended: in those cases queryImageTaskStatus returns normally with
\* results null (not an empty list), status and fail_code unchanged, and
\* item_count the length of the item list.
C10_NullResults ==
  (op = "queryImage" /\ Answered /\ args.response.present /\ NoImageUrl(args.response)) =>
    /\ ret.kind = "return"
    /\ ret.value.results = NullResults
    /\ ret.value.status = args.response.status
    /\ ret.value.fail_code = args.response.fail_code
    /\ ret.value.item_count = Len(ItemListOf(args.response))

\* C10 witness: two items, the first with an image object but no large image
C10_Witness ==
  /\ op = "queryImage"
  /\ Answered
  /\ args.response.present
  /\ Len(ItemListOf(args.response)) = 2
  /\ args.response.item_list[1].has_image
  /\ NoImageUrl(args.response)
  /\ ret.kind = "return"
  /\ ret.value.item_count = 2

\* the strings of the answer that a pattern is matched against
HqAnswered ==
  /\ op = "fetchHighQuality"
  /\ ~args.response.rejected
  /\ args.response.shape = "object"

\* the first string of the text whose host is in hosts, if any
FirstOfHosts(text, hosts) ==
  LET ks == { k \in 1..Len(text) : text[k].host \in hosts }
  IN IF ks = {} THEN NoUrl
     ELSE text[CHOOSE k \in ks : \A j \in ks : k <= j]

\* C11: fetchHighQualityVideoUrl never raises; it returns the first non-empty
\* result of (1) the structured fields of the first item, (2) the dreamnia
\* pattern, (3) the jimeng.com pattern, (4) the vlabvod-or-jimeng pattern on the
\* serialized answer; null when all four find nothing and when the vendor call
\* fails.
C11_FourStrategies ==
  op = "fetchHighQuality" =>
    /\ ret.kind = "return"
    /\ args.response.rejected => ret.value = NoUrl
    /\ HqAnswered =>
         LET items == HqItemList(args.response)
             text == HqSerialized(args.response)
             s1 == IF Len(items) = 0 THEN {}
                   ELSE { f \in {items[1].transcoded, items[1].download_url,
                                 items[1].play_url, items[1].url} : UrlPresent(f) }
             s2 == FirstOfHosts(text, {"dreamnia.jimeng.com"})
             s3 == FirstOfHosts(text, {"dreamnia.jimeng.com", "cdn.jimeng.com"})
             s4 == FirstOfHosts(text, {"dreamnia.jimeng.com", "cdn.jimeng.com", "artist.vlabvod.com"})
         IN /\ s1 # {} => ret.value \in s1
            /\ (s1 = {} /\ UrlPresent(s2)) => ret.value = s2
            /\ (s1 = {} /\ ~UrlPresent(s2) /\ UrlPresent(s3)) => ret.value = s3
            /\ (s1 = {} /\ ~UrlPresent(s2) /\ ~UrlPresent(s3) /\ UrlPresent(s4)) => ret.value = s4
            /\ (s1 = {} /\ ~UrlPresent(s4)) => ret.value = NoUrl

\* C11 witness: nothing in the structured fields, a jimeng.com URL written
\* before a dreamnia URL: the dreamnia URL is returned
C11_Witness ==
  /\ HqAnswered
  /\ Len(HqItemList(args.response)) > 0
  /\ Len(args.response.extras) = 2
  /\ args.response.extras[1].host = "cdn.jimeng.com"
  /\ args.response.extras[2].host = "dreamnia.jimeng.com"
  /\ ret = Return(args.response.extras[2])

\* what the four fields of the first item give, in the claimed priority
FirstItemUrl(resp) ==
  LET items == ItemListOf(resp) IN
  IF Len(items) = 0 THEN NoUrl
  ELSE IF items[1].transcoded # NoUrl THEN items[1].transcoded
  ELSE IF items[1].play_url # NoUrl THEN items[1].play_url
  ELSE IF items[1].download_url # NoUrl THEN items[1].download_url
  ELSE items[1].url

\* the video URL is the CDN pattern's match when there is one, else what the
\* first item gives; so it is null only when both give nothing
UrlByPatternThenItem(resp, url) ==
  LET cdn == FirstOfHosts(Serialized(resp), {"artist.vlabvod.com"})
  IN /\ cdn # NoUrl => url = cdn
     /\ cdn = NoUrl => url = FirstItemUrl(resp)
     /\ url = NoUrl => (cdn = NoUrl /\ FirstItemUrl(resp) = NoUrl)

\* C12 as claimed: in queryVideoTaskStatus the URL is the CDN pattern's match
\* on the serialized response, else the first present of transcoded origin,
\* play_url, download_url, url of the first item; it is null only when the
\* pattern fails and the first item has none of the four.
C12_Original ==
  (op = "queryVideo" /\ Answered) =>
    /\ ret.kind = "return"
    /\ UrlByPatternThenItem(args.response, ret.value.videoUrl)

\* C12 amended: the same, for an answer that holds a record for the queried id
\* (without a record the URL is null whatever the pattern matches).
C12_PatternThenFirstItem ==
  (op = "queryVideo" /\ Answered /\ args.response.present) =>
    /\ ret.kind = "return"
    /\ UrlByPatternThenItem(args.response, ret.value.videoUrl)

\* C12 witness: no CDN URL anywhere; the first item has a download_url and a
\* play_url but no transcoded origin: the play_url is returned
C12_Witness ==
  /\ op = "queryVideo"
  /\ Answered
  /\ args.response.present
  /\ FirstOfHosts(Serialized(args.response), {"artist.vlabvod.com"}) = NoUrl
  /\ Len(args.response.item_list) > 0
  /\ args.response.item_list[1].transcoded = NoUrl
  /\ args.response.item_list[1].download_url # NoUrl
  /\ args.response.item_list[1].play_url # NoUrl
  /\ ret.kind = "return"
  /\ ret.value.videoUrl = args.response.item_list[1].play_url

\* the five sizes, in the claimed priority
SizePriority == <<"2400", "1080", "720", "480", "360">>

\* the position in SizePriority of the first key the map holds with a
\* non-empty value; 0 when it holds none
FirstHeld(item) ==
  LET held == { n \in 1..Len(SizePriority) :
                  /\ item.cover_kind = "object"
                  /\ item.cover_url_map[SizePriority[n]] \notin {Null, <<>>} }
  IN IF held = {} THEN 0 ELSE CHOOSE n \in held : \A m \in held : n <= m

\* C13: extractImageUrlInfo takes webp_long from the first of the keys 2400,
\* 1080, 720, 480, 360 that cover_url_map holds with a non-empty value; it is
\* null exactly when the map holds none of the five, and otherwise it is one
\* of the values of webp_sizes.
C13_WebpLongPriority ==
  op = "extractImageUrlInfo" =>
    LET item == args.item
        info == ret.value
        n == FirstHeld(item)
    IN /\ ret.kind = "return"
       /\ (info.webp_long = Null) <=> (n = 0)
       /\ n # 0 =>
            /\ info.webp_long = info.webp_sizes[SizePriority[n]]
            /\ info.webp_long = Unescape(item.cover_url_map[SizePriority[n]])
            /\ \E k \in DOMAIN info.webp_sizes : info.webp_sizes[k] = info.webp_long

\* C13 witness: the map holds only 720 and 360 (and 1080 with an empty
\* value): the 720 value is chosen
C13_Witness ==
  /\ op = "extractImageUrlInfo"
  /\ args.item.cover_kind = "object"
  /\ args.item.cover_url_map["2400"] = Null
  /\ args.item.cover_url_map["1080"] = <<>>
  /\ args.item.cover_url_map["720"] = CoverUrl("720")
  /\ args.item.cover_url_map["480"] = Null
  /\ args.item.cover_url_map["360"] = CoverUrl("360")
  /\ ret.value.webp_long = Unescape(CoverUrl("720"))

\* the string holds the escaped ampersand somewhere
HasEscaped(s) ==
  \E k \in 1..(Len(s) - Len(Escaped) + 1) : SubSeq(s, k, k + Len(Escaped) - 1) = Escaped

\* the number of occurrences of the escaped ampersand in s, counted left to right
RECURSIVE Occurrences(_)
Occurrences(s) ==
  IF Len(s) < Len(Escaped) THEN 0
  ELSE IF SubSeq(s, 1, Len(Escaped)) = Escaped
       THEN 1 + Occurrences(SubSeq(s, Len(Escaped) + 1, Len(s)))
       ELSE Occurrences(Tail(s))

\* out is the vendor's field with every escaped ampersand replaced by '&':
\* none is left, and each one shortened the string by five characters
Unescaped(field, out) ==
  /\ ~HasEscaped(out)
  /\ Len(out) = Len(field) - (Len(Escaped) - 1) * Occurrences(field)
  /\ Cardinality({k \in 1..Len(out) : out[k] = "&"})
       = Cardinality({k \in 1..Len(field) : field[k] = "&"}) + Occurrences(field)

\* C14: no URL returned by extractImageUrl, extractImageUrls or
\* extractImageUrlInfo (png, webp, webp_long, every entry of webp_sizes) holds
\* the escaped ampersand: every occurrence in the vendor's field was replaced.
C14_NoEscapedAmpersand ==
  /\ op = "extractImageUrlInfo" =>
       LET item == args.item
           info == ret.value
       IN /\ info.png # Null => Unescaped(item.image_url, info.png)
          /\ info.webp # Null => Unescaped(item.cover_url, info.webp)
          /\ info.webp_long # Null => ~HasEscaped(info.webp_long)
          /\ \A k \in DOMAIN info.webp_sizes :
               info.webp_sizes[k] # Null => Unescaped(item.cover_url_map[k], info.webp_sizes[k])
  /\ op = "extractImageUrls" =>
       /\ \A k \in 1..Len(ret.value) : ~HasEscaped(ret.value[k])
       /\ \A k \in 1..Len(args.itemList) :
            extractImageUrl(args.itemList[k]) # Null =>
              Unescaped(args.itemList[k].image_url, extractImageUrl(args.itemList[k]))
  /\ (op = "queryImage" /\ ret.kind = "return") =>
       \A k \in 1..Len(ret.value.results.list) : ~HasEscaped(ret.value.results.list[k].url)

\* C14 witness: a png URL with three escaped ampersands, two of them adjacent
C14_Witness ==
  /\ op = "extractImageUrlInfo"
  /\ Occurrences(args.item.image_url) = 3
  /\ ret.value.png = <<"b", "?", "&", "&", "z", "&">>
  /\ \E k \in DOMAIN ret.value.webp_sizes : ret.value.webp_sizes[k] # Null

\* C15: queryCredits returns the balances of the credit call unchanged, or, when
\* that call fails (it rejects, or its result is no object), raises the
\* request-failed exception with the credits-query-failed message and nothing
\* else; the /credits route reshapes a successful result into
\* {total, gift, purchase, vip}.
C15_CreditsQuery ==
  op = "credits" =>
    LET answer == args.response IN
    /\ ret.kind \in {"return", "throw"}
    /\ ret.kind = "throw" =>
         /\ ret.ex = "API_REQUEST_FAILED"
         /\ ret.msg = "credits_query_failed"
         /\ answer.out # "ok"
    /\ answer.out # "ok" => ret.kind = "throw"
    /\ (answer.out = "ok" /\ entry = "direct") => ret.value = answer.credits
    /\ (answer.out = "ok" /\ entry = "route") =>
         /\ DOMAIN ret.value.credits = {"total", "gift", "purchase", "vip"}
         /\ ret.value.credits.total = answer.credits.totalCredit
         /\ ret.value.credits.gift = answer.credits.giftCredit
         /\ ret.value.credits.purchase = answer.credits.purchaseCredit
         /\ ret.value.credits.vip = answer.credits.vipCredit

\* C15 witness: the credit call resolves with no object
C15_Witness ==
  /\ op = "credits"
  /\ entry = "direct"
  /\ args.response.out = "null"
  /\ ret = Throw("API_REQUEST_FAILED", "credits_query_failed")

\* C16: in every request createVideoGenerationTask submits, the resolution
\* field is present in the video generation input and in the scene options
\* exactly when the model key contains "vgfm_3.0" and does not contain "_pro",
\* and then it is the requested resolution; otherwise it is in neither place.
C16_ResolutionField ==
  VideoInvoked =>
    \A k \in 1..Len(GenerateCalls) :
      LET req == GenerateCalls[k]
          family == Includes(args.model, S_vgfm30) /\ ~Includes(args.model, S_pro)
      IN /\ req.has_resolution <=> family
         /\ req.sceneOption.has_resolution <=> family
         /\ family => (req.resolution = args.resolution
                        /\ req.sceneOption.resolution = args.resolution)

\* C16 witness: a vgfm_3.0_fast key of the _pro variant: no resolution is sent
C16_Witness ==
  /\ VideoInvoked
  /\ args.model = S_vgfm30fast \o S_pro
  /\ Len(GenerateCalls) = 1
  /\ ~GenerateCalls[1].has_resolution
  /\ ~GenerateCalls[1].sceneOption.has_resolution

\* C17 as claimed: in every request createVideoGenerationTask submits, the
\* first-frame slot, when set, holds the asset of the input image at index 0
\* and the end-frame slot, when set, the asset of the image at index 1,
\* whatever entries were empty, uploaded without an id, or failed.
C17_Claim ==
  VideoInvoked =>
    \A k \in 1..Len(GenerateCalls) :
      /\ GenerateCalls[k].first_frame_image.set =>
           GenerateCalls[k].first_frame_image.uri = AssetId(1)
      /\ GenerateCalls[k].end_frame_image.set =>
           GenerateCalls[k].end_frame_image.uri = AssetId(2)

\* how many files a value of the files object carries; an array carries more
\* than one (here one more than the route's bound)
FilesIn(value) == IF value = "file" THEN 1 ELSE IF value = "array" THEN MaxVideoImages + 1 ELSE 0

RECURSIVE FileCount(_)
FileCount(files) ==
  IF Len(files) = 0 THEN 0 ELSE FilesIn(Head(files)) + FileCount(Tail(files))

\* C20 as claimed: /images/compositions throws for 0 or more than 10 images,
\* in the multipart and in the JSON form, and /videos/generations throws for
\* more than 2 file paths or more than 2 uploaded files, in each case before
\* the controller is called, so that no upload happens.
C20_Claim ==
  entry = "route" =>
    /\ (op \in {"composition", "video"} /\ Rejected) =>
         /\ calls = <<>>
         /\ pc = "done"
         /\ ret.kind = "throw"
    /\ CompInvoked => Len(args.images) \in 1..MaxCompositionImages
    /\ VideoInvoked =>
         /\ Len(args.filePaths) <= MaxVideoImages
         /\ FileCount(args.files) <= MaxVideoImages

\* C19 as claimed: for every answer the status queryVideoTaskStatus returns
\* is one of 'processing', 'completed', 'failed'.
C19_Original ==
  (op = "queryVideo" /\ Answered) =>
    /\ ret.kind = "return"
    /\ ret.value.status \in {"processing", "completed", "failed"}

\* C19 amended: the status is one of 'processing', 'completed', 'failed' or
\* 'unknown'; it is 'unknown' exactly when the record exists, its raw status
\* is none of 10, 20, 30, 50 and no video URL was extracted.
C19_StatusValues ==
  (op = "queryVideo" /\ Answered) =>
    /\ ret.kind = "return"
    /\ ret.value.status \in {"processing", "completed", "failed", "unknown"}
    /\ ret.value.status = "unknown" <=>
         /\ args.response.present
         /\ args.response.status \notin {10, 20, 30, 50}
         /\ ret.value.videoUrl = NoUrl

\* C19 witness: a record with raw status 42 and no URL
C19_Witness ==
  /\ op = "queryVideo"
  /\ Answered
  /\ args.response.present
  /\ args.response.status = 42
  /\ ret.kind = "return"
  /\ ret.value.videoUrl = NoUrl
  /\ ret.value.status = "unknown"

\* the uploads call c made, the ids they returned, and its generate requests
OwnUploads(c) == SelectSeq(calls[c], IsUploadCall)
OwnGenerates(c) == SelectSeq(calls[c], IsGenerateCall)
ReturnedIds(c) == [k \in 1..Len(OwnUploads(c)) |-> OwnUploads(c)[k].id]
TruthyIds(c) == SelectSeq(ReturnedIds(c), Truthy)

\* call c made an upload that failed
OwnFailure(c) == \E k \in 1..Len(OwnUploads(c)) : OwnUploads(c)[k].out = "fail"

\* C18: under every interleaving of the upload and submit steps of the
\* concurrent calls, the asset ids in a call's request are exactly the ids its
\* own uploads returned, in its own order, and a call ends in an upload failure
\* only through a failed upload of its own: a failure in one call neither
\* aborts nor alters another.
C18_NoSharedState ==
  \A c \in ConcCalls :
    /\ Len(OwnGenerates(c)) <= 1
    /\ (OwnGenerates(c) # <<>> /\ op[c] = "composition") =>
         /\ OwnGenerates(c)[1].abilityIds = ReturnedIds(c)
         /\ Len(ReturnedIds(c)) = Len(args[c].images)
    /\ (OwnGenerates(c) # <<>> /\ op[c] = "video") =>
         /\ OwnGenerates(c)[1].first_frame_image =
              (IF Len(TruthyIds(c)) >= 1 THEN Frame(TruthyIds(c)[1]) ELSE NoFrame)
         /\ OwnGenerates(c)[1].end_frame_image =
              (IF Len(TruthyIds(c)) >= 2 THEN Frame(TruthyIds(c)[2]) ELSE NoFrame)
    /\ ret[c] \in {UploadFailure, FirstFrameFailure} => OwnFailure(c)
    /\ (pc[c] = "done" /\ ~OwnFailure(c)) => Len(OwnGenerates(c)) = 1
    /\ \A k \in 1..Len(OwnUploads(c)) :
         OwnUploads(c)[k].id \in {EmptyId} \cup { AssetId(<<c, r>>) : r \in 1..MaxConcImages }

\* C18 witness: call A is aborted by the failure of its second upload while
\* call B has submitted a request with its own two ids
C18_Witness ==
  /\ op["A"] = "composition"
  /\ ret["A"] = UploadFailure
  /\ Len(OwnUploads("A")) = 2
  /\ op["B"] = "composition"
  /\ Len(OwnGenerates("B")) = 1
  /\ OwnGenerates("B")[1].abilityIds = <<AssetId(<<"B", 1>>), AssetId(<<"B", 2>>)>>
  /\ ret["B"].kind = "return"

\* C21: for an existing history record queryVideoTaskStatus returns status
\* 'completed' if and only if the returned videoUrl is non-null.
C21_CompletedIffUrl ==
  (op = "queryVideo" /\ Answered /\ args.response.present) =>
    /\ ret.kind = "return"
    /\ ret.value.status = "completed" <=> ret.value.videoUrl # NoUrl

\* C21 witness: a record whose raw status is outside the table and whose
\* first item holds no URL is completed through a URL the pattern found
C21_Witness ==
  /\ op = "queryVideo"
  /\ Answered
  /\ args.response.present
  /\ args.response.status = 0
  /\ Len(args.response.item_list) > 0
  /\ extractVideoUrl(args.response.item_list[1]) = NoUrl
  /\ ret.kind = "return"
  /\ ret.value.videoUrl # NoUrl
  /\ ret.value.status = "completed"

\* the items of the record that carry a large-original-image URL, in item order
CarriesImageUrl(item) == item.has_image /\ Truthy(item.image_url)
CarryingItems(resp) == SelectSeq(ItemListOf(resp), CarriesImageUrl)

\* C22: for an existing history record the results of queryImageTaskStatus
\* hold exactly one entry per item that carries a large-original-image URL, in
\* item order, each with that item's un-escaped URL (null results are read as
\* no entries); no such item is left out, whatever the other items contain.
C22_Claim ==
  (op = "queryImage" /\ Answered /\ args.response.present) =>
    /\ ret.kind = "return"
    /\ ret.value.results.list =
         [k \in 1..Len(CarryingItems(args.response)) |->
            [url |-> Unescape(CarryingItems(args.response)[k].image_url)]]

\* a call of createImageCompositionTask or createVideoGenerationTask is under way
CreationStarted == op \in {"composition", "video"}

\* the call has ended: it returned a history id or raised an error
CreationEnded ==
  /\ pc = "done"
  /\ \/ ret.kind = "throw"
     \/ ret.kind = "return" /\ Truthy(ret.value)

\* the input images of the call
InputCount ==
  IF pc = "done" /\ calls = <<>> /\ ret.kind = "throw" THEN 0
  ELSE IF op = "composition" THEN Len(args.images)
  ELSE Len(Source)

\* a step inside an upload loop: the index never goes back, and a step that
\* uploads either advances it or ends the call
LoopStep ==
  (CreationStarted /\ pc # "done") =>
    /\ i' >= i
    /\ i' <= i + 1
    /\ calls' # calls => (i' = i + 1 \/ pc' = "done")

\* C23: every call of createImageCompositionTask and createVideoGenerationTask
\* terminates once its collaborator calls return or fail: it eventually returns
\* a history id or raises an error, after at most one upload attempt per input
\* image, and the upload loops never revisit an index.
C23_Terminates ==
  /\ [](CreationStarted => <>CreationEnded)
  /\ [](CreationStarted => (OneAttemptPerIndex /\ Len(UploadCalls) <= InputCount))
  /\ [][LoopStep]_vars

\* C23 witness: a video call over two entries, the second of which failed and
\* was tolerated, has returned its history id
C23_Witness ==
  /\ VideoInvoked
  /\ Len(Source) = 2
  /\ i = 2
  /\ Len(UploadCalls) = 2
  /\ UploadCalls[2].out = "fail"
  /\ GenerateCalls # <<>>
  /\ CreationEnded
  /\ ret.kind = "return"

\* the collaborator calls of the uploads, and the ids the uploads of files returned
EntryCalls == SelectSeq(calls, LAMBDA c : ~IsGenerateCall(c))
FileIds == { UploadCalls[k].id : k \in { j \in 1..Len(UploadCalls) : UploadCalls[j].from = "file" } }

\* C24: in createVideoGenerationTask, when at least one uploaded file is
\* supplied no entry of filePaths is read, downloaded or uploaded (even if no
\* file upload yields an id) and the frame slots are filled from the uploaded
\* files only; filePaths are processed only when no uploaded file is supplied.
C24_FilesPrecedence ==
  VideoInvoked =>
    /\ Len(args.files) > 0 =>
         /\ \A k \in 1..Len(EntryCalls) : EntryCalls[k].from \in {"file", "array"}
         /\ \A k \in 1..Len(GenerateCalls) :
              /\ GenerateCalls[k].first_frame_image.set =>
                   GenerateCalls[k].first_frame_image.uri \in FileIds
              /\ GenerateCalls[k].end_frame_image.set =>
                   GenerateCalls[k].end_frame_image.uri \in FileIds
    /\ (\E k \in 1..Len(EntryCalls) : EntryCalls[k].from \in {"local", "url"}) =>
         \A k \in 1..Len(args.files) : args.files[k] \notin {"file", "array"}

\* C24 witness: files and file paths were both supplied, every file upload
\* came back without an id, and the request was sent with empty frame slots
C24_Witness ==
  /\ VideoInvoked
  /\ Len(args.files) = 2
  /\ \E k \in 1..Len(args.filePaths) : args.filePaths[k] = "url"
  /\ Len(UploadCalls) = 2
  /\ \A k \in 1..2 : UploadCalls[k].out = "empty" /\ UploadCalls[k].from = "file"
  /\ Len(GenerateCalls) = 1
  /\ ~GenerateCalls[1].first_frame_image.set
  /\ ~GenerateCalls[1].end_frame_image.set

=============================================================================
